---- MODULE Spec2Model ----
(***************************************************************************)
(* The FastAPI variant of the TikTok downloader (src/app.py): one request  *)
(* to POST /api/download, followed through download_video,                 *)
(* resolve_shortened_url, extract_video_data_real and get_no_watermark_url.*)
(* The remote parties (the redirect of the short link, the TikTok page,    *)
(* ssstik.io, api.tikmate.app) answer nondeterministically.                *)
(*                                                                         *)
(* Text is modelled at the level the code inspects it: a URL is a scheme,  *)
(* a host and path segments; an ISO-8601 duration is a sequence of         *)
(* characters; a page is the sequence of its ld+json script blocks.        *)
(* Python's None is "" wherever the code only tests truthiness.            *)
(***************************************************************************)
EXTENDS Naturals, Sequences, FiniteSets, TLC

VARIABLES
    pc,                 \* position of the request in the code
    tiktok_url,         \* the URL of the request body (tiktok_url.url)
    url,                \* download_video's local url
    calls,              \* outbound HTTP calls issued so far, in order
    redirect,           \* what the redirect resolution answered
    fetch,              \* what the page fetch answered
    scripts,            \* ld+json script blocks of the parsed page
    video_id,           \* extract_video_data_real's video_id ("" is None)
    json_ld,            \* the VideoObject block found (NoJsonLd is None)
    meta,               \* title, author, cover, duration and whether parsing raised
    ssstik,             \* what the extraction service answered
    tikmate,            \* what the lookup API answered
    no_watermark_url,   \* value returned by get_no_watermark_url ("" is None)
    status,             \* HTTP status of the response (0: not answered yet)
    error,              \* "error" field of an error response
    video_data          \* body of a 200 response

vars == <<pc, tiktok_url, url, calls, redirect, fetch, scripts, video_id, json_ld,
          meta, ssstik, tikmate, no_watermark_url, status, error, video_data>>

-----------------------------------------------------------------------------
(* Bounds of the model.                                                    *)

\* longest list of ld+json script blocks in a page
MaxScripts == 2
\* longest list of anchors in the extraction service's answer
MaxAnchors == 2

\* the sequences over S of length at most n
SeqUpTo(S, n) == UNION {[1..k -> S] : k \in 0..n}

-----------------------------------------------------------------------------
(* Python string operations, on sequences of characters.                   *)

\* sub occurs in s at position i
OccursAt(s, sub, i) ==
    /\ i >= 1
    /\ i + Len(sub) - 1 <= Len(s)
    /\ SubSeq(s, i, i + Len(sub) - 1) = sub

\* sub in s
StrContains(s, sub) == \E i \in 1..Len(s) : OccursAt(s, sub, i)

\* s.find(sub) + 1, for a sub that occurs
StrFind(s, sub) ==
    CHOOSE i \in 1..Len(s) :
        OccursAt(s, sub, i) /\ \A j \in 1..(i - 1) : ~OccursAt(s, sub, j)

\* s.replace(old, new)
RECURSIVE StrReplace(_, _, _)
StrReplace(s, old, new) ==
    IF ~StrContains(s, old) THEN s
    ELSE LET i == StrFind(s, old)
         IN  SubSeq(s, 1, i - 1) \o new
                 \o StrReplace(SubSeq(s, i + Len(old), Len(s)), old, new)

\* s.split(sep)
RECURSIVE StrSplit(_, _)
StrSplit(s, sep) ==
    IF ~StrContains(s, sep) THEN <<s>>
    ELSE LET i == StrFind(s, sep)
         IN  <<SubSeq(s, 1, i - 1)>> \o StrSplit(SubSeq(s, i + Len(sep), Len(s)), sep)

Digits == {"0", "1", "2", "3", "4", "5", "6", "7", "8", "9"}

DigitValue(c) ==
    CASE c = "0" -> 0 [] c = "1" -> 1 [] c = "2" -> 2 [] c = "3" -> 3 [] c = "4" -> 4
      [] c = "5" -> 5 [] c = "6" -> 6 [] c = "7" -> 7 [] c = "8" -> 8 [] c = "9" -> 9

RECURSIVE DecimalValue(_)
DecimalValue(s) ==
    IF s = <<>> THEN 0
    ELSE 10 * DecimalValue(SubSeq(s, 1, Len(s) - 1)) + DigitValue(s[Len(s)])

\* int(s): raises ValueError unless s is a nonempty run of digits
PyInt(s) ==
    IF s # <<>> /\ \A i \in 1..Len(s) : s[i] \in Digits
    THEN [raised |-> FALSE, value |-> DecimalValue(s)]
    ELSE [raised |-> TRUE, value |-> 0]

-----------------------------------------------------------------------------
(* URLs.  A URL is its scheme, its host and its path segments; the request *)
(* body is an HttpUrl, so the scheme is http or https.                     *)

Url(scheme, host, path) == [scheme |-> scheme, host |-> host, path |-> path]

\* no URL at all (the final URL of a redirect resolution that never answered)
NoUrl == Url("", "", <<>>)

\* path segments beginning with characters of [A-Za-z0-9]
TokenSegments == {"ZSabc12", "video", "photo", "abc", "7123", "99"}
\* path segments of the form @[\w.-]+
HandleSegments == {"@user", "@vm.tiktok.com"}
\* path segments beginning with a digit
NumericSegments == {"7123", "99"}
\* path segments holding the text vm.tiktok.com
VmSegments == {"@vm.tiktok.com"}

\* URLs a client may submit
RequestUrls ==
    { Url("https", "vm.tiktok.com", <<"ZSabc12">>),
      Url("http", "vm.tiktok.com", <<"ZSabc12">>),
      Url("https", "vm.tiktok.com", <<>>),
      Url("https", "vm.tiktok.com", <<"@user", "video", "7123">>),
      Url("https", "vm.tiktok.com", <<"ZSabc12", "video", "99">>),
      Url("https", "www.tiktok.com", <<"@user", "video", "7123">>),
      Url("http", "tiktok.com", <<"@user", "video", "7123">>),
      Url("https", "m.tiktok.com", <<"@user", "video", "7123">>),
      Url("https", "www.tiktok.com", <<"@user", "video">>),
      Url("https", "www.tiktok.com", <<"@user", "video", "abc">>),
      Url("https", "www.tiktok.com", <<"@user", "photo", "7123">>),
      Url("https", "www.tiktok.com", <<"@user">>),
      Url("https", "www.tiktok.com", <<"@vm.tiktok.com", "video", "7123">>),
      Url("https", "example.com", <<"@user", "video", "7123">>) }

\* URLs a redirect chain may end at, besides the URL it started from
RedirectTargets ==
    { Url("https", "www.tiktok.com", <<"@user", "video", "7123">>),
      Url("https", "www.tiktok.com", <<"@user">>),
      Url("https", "www.tiktok.com", <<"@user", "video", "abc">>) }

\* re.match(r'https?://(vm\.tiktok\.com/[A-Za-z0-9]+/?|(www\.)?tiktok\.com/@[\w.-]+/video/\d+)', url):
\* a match of a prefix of the URL
ReMatchTikTok_NoToken(u) ==
    /\ u.scheme \in {"http", "https"}
    /\ \/ u.host = "vm.tiktok.com"
       \/ /\ u.host \in {"www.tiktok.com", "tiktok.com"}
          /\ Len(u.path) >= 3
          /\ u.path[1] \in HandleSegments
          /\ u.path[2] = "video"
          /\ u.path[3] \in NumericSegments

ReMatchTikTok(u) ==
    /\ u.scheme \in {"http", "https"}
    /\ \/ /\ u.host = "vm.tiktok.com"
          /\ Len(u.path) >= 1
          /\ u.path[1] \in TokenSegments
       \/ /\ u.host \in {"www.tiktok.com", "tiktok.com"}
          /\ Len(u.path) >= 3
          /\ u.path[1] \in HandleSegments
          /\ u.path[2] = "video"
          /\ u.path[3] \in NumericSegments

\* 'vm.tiktok.com' in url
ContainsVm(u) ==
    \/ u.host = "vm.tiktok.com"
    \/ \E i \in 1..Len(u.path) : u.path[i] \in VmSegments

\* resolve_shortened_url: the final URL of the redirect chain, or the URL
\* itself when the GET raises
ResolveShortenedUrl_Propagate(u, answer) == answer.final

ResolveShortenedUrl(u, answer) ==
    IF answer.raised THEN u ELSE answer.final

\* what the GET of resolve_shortened_url may answer for u
RedirectAnswers(u) ==
    {[called |-> TRUE, raised |-> TRUE, final |-> NoUrl]}
        \cup {[called |-> TRUE, raised |-> FALSE, final |-> t] : t \in RedirectTargets \cup {u}}

NoRedirect == [called |-> FALSE, raised |-> FALSE, final |-> NoUrl]

\* "/video/" in url, then re.search(r'/video/(\d+)', url).group(1); "" is None
VideoIdOf_AnySegment(u) ==
    IF \E i \in 1..(Len(u.path) - 1) : u.path[i] = "video"
    THEN u.path[(CHOOSE i \in 1..(Len(u.path) - 1) : u.path[i] = "video") + 1]
    ELSE ""

VideoIdOf(u) ==
    LET hits == {i \in 1..(Len(u.path) - 1) :
                    u.path[i] = "video" /\ u.path[i + 1] \in NumericSegments}
    IN  IF hits = {} THEN ""
        ELSE u.path[(CHOOSE i \in hits : \A j \in hits : i <= j) + 1]

-----------------------------------------------------------------------------
(* The TikTok page: its <script type="application/ld+json"> blocks.        *)

\* a field the JSON object does not have
Absent == "<absent>"

\* characters of the ISO-8601 durations
PT == <<"P", "T">>
LetterM == <<"M">>
LetterS == <<"S">>

\* the "duration" values a block may carry
DurationTexts ==
    { <<"P", "T", "1", "M", "3", "0", "S">>,
      <<"P", "T", "4", "5", "S">>,
      <<"P", "T", "2", "M">>,
      <<"P", "T", "1", "H", "2", "M">>,
      <<"P", "T", "1", ".", "5", "S">>,
      <<"P", "T", "1", "H">>,
      <<"P", "1", "D">> }

DurationFields ==
    {[present |-> FALSE, text |-> <<>>]}
        \cup {[present |-> TRUE, text |-> t] : t \in DurationTexts}

\* the "author" values: no field, a value that is no object, an object
\* without and with a name
AuthorFields ==
    { [kind |-> "absent", name |-> Absent],
      [kind |-> "string", name |-> Absent],
      [kind |-> "object", name |-> Absent],
      [kind |-> "object", name |-> "creator"] }

\* the "thumbnailUrl" values: no field, a string, an empty and a nonempty list
ThumbnailFields ==
    { [kind |-> "absent", value |-> "", items |-> <<>>],
      [kind |-> "string", value |-> "https://cdn/cover.jpg", items |-> <<>>],
      [kind |-> "list", value |-> "", items |-> <<>>],
      [kind |-> "list", value |-> "",
       items |-> <<"https://cdn/cover1.jpg", "https://cdn/cover2.jpg">>] }

NameFields == {Absent, "a clip"}

Block(parses, type, name, author, thumbnailUrl, duration) ==
    [parses |-> parses, type |-> type, name |-> name, author |-> author,
     thumbnailUrl |-> thumbnailUrl, duration |-> duration]

\* a script block whose text json.loads rejects
BadJson ==
    Block(FALSE, "", Absent, [kind |-> "absent", name |-> Absent],
          [kind |-> "absent", value |-> "", items |-> <<>>],
          [present |-> FALSE, text |-> <<>>])

\* a script block describing something else than a video
OtherJson ==
    Block(TRUE, "Organization", "TikTok", [kind |-> "object", name |-> "TikTok Inc"],
          [kind |-> "string", value |-> "https://cdn/logo.png", items |-> <<>>],
          [present |-> TRUE, text |-> <<"P", "T", "9", "S">>])

VideoObjects ==
    {Block(TRUE, "VideoObject", n, a, t, d) :
        n \in NameFields, a \in AuthorFields, t \in ThumbnailFields, d \in DurationFields}

\* a second VideoObject of a page
LaterVideoObject ==
    Block(TRUE, "VideoObject", "another clip", [kind |-> "object", name |-> "someone"],
          [kind |-> "string", value |-> "https://cdn/other.jpg", items |-> <<>>],
          [present |-> TRUE, text |-> <<"P", "T", "7", "S">>])

\* json_ld = None
NoJsonLd ==
    Block(FALSE, "None", Absent, [kind |-> "absent", name |-> Absent],
          [kind |-> "absent", value |-> "", items |-> <<>>],
          [present |-> FALSE, text |-> <<>>])

\* The pages: any blocks up to the first VideoObject, which may be any of
\* VideoObjects; the loop stops there, and the blocks after it are drawn
\* from three.
Pages ==
    SeqUpTo({BadJson, OtherJson}, MaxScripts) \cup
    UNION {{b \o <<v>> \o a :
                v \in VideoObjects,
                a \in SeqUpTo({BadJson, OtherJson, LaterVideoObject},
                              MaxScripts - 1 - Len(b))} :
            b \in SeqUpTo({BadJson, OtherJson}, MaxScripts - 1)}

\* a VideoObject with every field well formed
PlainVideoObject ==
    Block(TRUE, "VideoObject", "a clip", [kind |-> "object", name |-> "creator"],
          [kind |-> "list", value |-> "",
           items |-> <<"https://cdn/cover1.jpg", "https://cdn/cover2.jpg">>],
          [present |-> TRUE, text |-> <<"P", "T", "1", "M", "3", "0", "S">>])

\* a few of the pages: none, one and two blocks, well formed and not
FewPages ==
    { <<>>,
      <<PlainVideoObject>>,
      <<BadJson, PlainVideoObject>>,
      <<OtherJson>>,
      <<Block(TRUE, "VideoObject", Absent, [kind |-> "absent", name |-> Absent],
              [kind |-> "absent", value |-> "", items |-> <<>>],
              [present |-> TRUE, text |-> <<"P", "T", "1", "H", "2", "M">>])>> }

DefaultTitle == "TikTok Video"
DefaultAuthor == "TikTok User"
DefaultCover == ""
DefaultDuration == 30

\* lines 147-157: the first block that parses and whose @type is VideoObject
FindJsonLd_AnyType(blocks) ==
    LET hits == {i \in 1..Len(blocks) : blocks[i].parses}
    IN  IF hits = {} THEN NoJsonLd
        ELSE blocks[CHOOSE i \in hits : \A j \in hits : i <= j]

FindJsonLd(blocks) ==
    LET hits == {i \in 1..Len(blocks) :
                    blocks[i].parses /\ blocks[i].type = "VideoObject"}
    IN  IF hits = {} THEN NoJsonLd
        ELSE blocks[CHOOSE i \in hits : \A j \in hits : i <= j]

\* lines 172-183: the seconds of an ISO-8601 duration holding 'PT'
ParseDuration_SecondsOfWhole(iso) ==
    LET duration_str == StrReplace(iso, PT, <<>>)
        hasM    == StrContains(duration_str, LetterM)
        minutes == PyInt(StrSplit(duration_str, LetterM)[1])
        hasS    == StrContains(duration_str, LetterS)
        seconds == PyInt(StrSplit(duration_str, LetterS)[1])
    IN  IF (hasM /\ minutes.raised) \/ (hasS /\ seconds.raised)
        THEN [raised |-> TRUE, value |-> 0]
        ELSE [raised |-> FALSE,
              value  |-> (IF hasM THEN minutes.value ELSE 0) * 60
                            + (IF hasS THEN seconds.value ELSE 0)]

ParseDuration(iso) ==
    LET duration_str == StrReplace(iso, PT, <<>>)
        hasM    == StrContains(duration_str, LetterM)
        minutes == PyInt(StrSplit(duration_str, LetterM)[1])
        rest    == IF hasM THEN StrSplit(duration_str, LetterM)[2] ELSE duration_str
        hasS    == StrContains(rest, LetterS)
        seconds == PyInt(StrSplit(rest, LetterS)[1])
    IN  IF (hasM /\ minutes.raised) \/ (hasS /\ seconds.raised)
        THEN [raised |-> TRUE, value |-> 0]
        ELSE [raised |-> FALSE,
              value  |-> (IF hasM THEN minutes.value ELSE 0) * 60
                            + (IF hasS THEN seconds.value ELSE 0)]

Metadata(raised, title, author, cover, duration) ==
    [raised |-> raised, title |-> title, author |-> author, cover |-> cover,
     duration |-> duration]

DefaultMetadata ==
    Metadata(FALSE, DefaultTitle, DefaultAuthor, DefaultCover, DefaultDuration)

\* lines 160-183: title, author, cover and duration of the block found, or
\* the exception one of the four lines raises
ExtractMetadata(jl) ==
    IF jl = NoJsonLd THEN DefaultMetadata
    ELSE LET title  == IF jl.name = Absent THEN DefaultTitle ELSE jl.name
             \* json_ld.get('author', {}).get('name', author)
             authorRaised == jl.author.kind = "string"
             author == IF jl.author.kind = "object" /\ jl.author.name # Absent
                       THEN jl.author.name ELSE DefaultAuthor
             \* json_ld.get('thumbnailUrl', '')[0] if it is a list, else itself
             coverRaised == jl.thumbnailUrl.kind = "list" /\ jl.thumbnailUrl.items = <<>>
             cover == CASE jl.thumbnailUrl.kind = "list" /\ ~coverRaised ->
                              jl.thumbnailUrl.items[1]
                        [] jl.thumbnailUrl.kind = "string" -> jl.thumbnailUrl.value
                        [] OTHER -> ""
             dur == IF jl.duration.present /\ StrContains(jl.duration.text, PT)
                    THEN ParseDuration(jl.duration.text)
                    ELSE [raised |-> FALSE, value |-> DefaultDuration]
         IN  IF authorRaised \/ coverRaised \/ dur.raised
             THEN [DefaultMetadata EXCEPT !.raised = TRUE]
             ELSE Metadata(FALSE, title, author, cover, dur.value)

-----------------------------------------------------------------------------
(* Answers of the remote parties.                                          *)

\* response.raise_for_status() passes
IsSuccess(code) == code >= 200 /\ code < 300

\* the page fetch: a transport exception, a failure status, or a page
NoFetch == [called |-> FALSE, raised |-> FALSE, status |-> 0]

FetchAnswers(pages) ==
    {[called |-> TRUE, raised |-> TRUE, status |-> 0, page |-> <<>>],
     [called |-> TRUE, raised |-> FALSE, status |-> 404, page |-> <<>>]}
        \cup {[called |-> TRUE, raised |-> FALSE, status |-> 200, page |-> p] : p \in pages}

\* an <a> of the extraction service's answer: whether its class is download,
\* whether its text holds 'without watermark', and its href
NoHref == "<no href>"
ScrapedLink == "https://tikcdn.io/ssstik/nowm.mp4"

Anchors ==
    [download : BOOLEAN, text : BOOLEAN, href : {NoHref, "", ScrapedLink}]

NoSsstik == [called |-> FALSE, raised |-> FALSE, status |-> 0, anchors |-> <<>>]

SsstikAnswers ==
    {[called |-> TRUE, raised |-> TRUE, status |-> 0, anchors |-> <<>>],
     [called |-> TRUE, raised |-> FALSE, status |-> 503, anchors |-> <<>>]}
        \cup {[called |-> TRUE, raised |-> FALSE, status |-> 200, anchors |-> a] :
                a \in SeqUpTo(Anchors, MaxAnchors)}

\* a few of them: an exception, a failure status, no anchor, one good anchor
FewSsstikAnswers ==
    {[called |-> TRUE, raised |-> TRUE, status |-> 0, anchors |-> <<>>],
     [called |-> TRUE, raised |-> FALSE, status |-> 503, anchors |-> <<>>],
     [called |-> TRUE, raised |-> FALSE, status |-> 200, anchors |-> <<>>],
     [called |-> TRUE, raised |-> FALSE, status |-> 200,
      anchors |-> <<[download |-> TRUE, text |-> TRUE, href |-> ScrapedLink]>>]}

\* the lookup API's body: no JSON, a JSON object without videoUrl, one
\* whose videoUrl is empty, one with a videoUrl
LookupLink == "https://tikmate.app/download/v.mp4"
TikmateBodies == {"not json", "no videoUrl", "empty videoUrl", "videoUrl"}

NoTikmate == [called |-> FALSE, raised |-> FALSE, status |-> 0, body |-> ""]

TikmateAnswers ==
    {[called |-> TRUE, raised |-> TRUE, status |-> 0, body |-> ""],
     [called |-> TRUE, raised |-> FALSE, status |-> 404, body |-> "not json"]}
        \cup {[called |-> TRUE, raised |-> FALSE, status |-> 200, body |-> b] :
                b \in TikmateBodies}

FewTikmateAnswers ==
    {[called |-> TRUE, raised |-> TRUE, status |-> 0, body |-> ""],
     [called |-> TRUE, raised |-> FALSE, status |-> 200, body |-> "no videoUrl"],
     [called |-> TRUE, raised |-> FALSE, status |-> 200, body |-> "videoUrl"]}

-----------------------------------------------------------------------------
(* get_no_watermark_url, one strategy at a time.  A strategy returns a     *)
(* URL, raises, or falls through to the next one.                          *)

StrategyResult(kind, value) == [kind |-> kind, value |-> value]

\* lines 216-235: the href of the first a.download whose text holds
\* 'without watermark'
SsstikStrategy_LastAnchor(answer) ==
    LET hits == {i \in 1..Len(answer.anchors) :
                    answer.anchors[i].download /\ answer.anchors[i].text}
        last == CHOOSE i \in hits : \A j \in hits : i >= j
    IN  IF answer.raised THEN StrategyResult("raise", "")
        ELSE IF answer.status # 200 \/ hits = {} THEN StrategyResult("next", "")
        ELSE IF answer.anchors[last].href = NoHref THEN StrategyResult("raise", "")
        ELSE StrategyResult("return", answer.anchors[last].href)

SsstikStrategy(answer) ==
    LET hits  == {i \in 1..Len(answer.anchors) :
                    answer.anchors[i].download /\ answer.anchors[i].text}
        first == CHOOSE i \in hits : \A j \in hits : i <= j
    IN  IF answer.raised THEN StrategyResult("raise", "")
        ELSE IF answer.status # 200 \/ hits = {} THEN StrategyResult("next", "")
        ELSE IF answer.anchors[first].href = NoHref THEN StrategyResult("raise", "")
        ELSE StrategyResult("return", answer.anchors[first].href)

\* lines 238-249: the videoUrl of the lookup API's JSON answer
TikmateStrategy(answer) ==
    IF answer.raised THEN StrategyResult("raise", "")
    ELSE IF answer.status # 200 THEN StrategyResult("next", "")
    ELSE CASE answer.body = "not json" -> StrategyResult("raise", "")
           [] answer.body = "videoUrl" -> StrategyResult("return", LookupLink)
           [] answer.body = "empty videoUrl" -> StrategyResult("return", "")
           [] OTHER -> StrategyResult("next", "")

\* line 253
FallbackUrl(id) ==
    "https://api16-normal-c-useast1a.tiktokv.com/aweme/v1/play/?video_id=" \o id
        \o "&line=0&is_play_url=1&source=PackSourceEnum_FEED"

\* lines 255-257: what get_no_watermark_url returns when anything in it raises
NoWatermarkUrlOnException == ""

\* lines 208-210: how extract_video_data_real ends when anything in it
\* raises: "none" returns None, "raise" lets the exception through
ExtractOnException_Reraise == "raise"

ExtractOnException == "none"

-----------------------------------------------------------------------------
(* download_video's response.                                              *)

NoVideoData ==
    [video_url |-> "", author |-> "", title |-> "", cover |-> "", duration |-> 0,
     download_url |-> ""]

\* lines 89-104: 200 with the data, 404 for None, 500 for an exception
StatusOf(outcome) ==
    CASE outcome = "data"  -> 200
      [] outcome = "none"  -> 404
      [] outcome = "raise" -> 500

ErrorOf(outcome) ==
    CASE outcome = "data"  -> ""
      [] outcome = "none"  -> "video_not_found"
      [] outcome = "raise" -> "server_error"

Respond(outcome, data) ==
    /\ pc' = "done"
    /\ status' = StatusOf(outcome)
    /\ error' = ErrorOf(outcome)
    /\ video_data' = data

\* lines 192-206: extract_video_data_real's return once get_no_watermark_url
\* has returned nw
ReturnVideoData(nw) ==
    IF nw = ""
    THEN Respond("none", NoVideoData)
    ELSE Respond("data", [video_url |-> nw, author |-> meta.author,
                          title |-> meta.title, cover |-> meta.cover,
                          duration |-> meta.duration, download_url |-> nw])

Call(service) == [service |-> service, url |-> url]

-----------------------------------------------------------------------------
(* The request.                                                            *)

Init ==
    /\ pc = "validate"
    /\ tiktok_url \in RequestUrls
    /\ url = tiktok_url
    /\ calls = <<>>
    /\ redirect = NoRedirect
    /\ fetch = NoFetch
    /\ scripts = <<>>
    /\ video_id = ""
    /\ json_ld = NoJsonLd
    /\ meta = DefaultMetadata
    /\ ssstik = NoSsstik
    /\ tikmate = NoTikmate
    /\ no_watermark_url = ""
    /\ status = 0
    /\ error = ""
    /\ video_data = NoVideoData

\* lines 70-84: the 400 of a URL the pattern rejects
Validate ==
    /\ pc = "validate"
    /\ IF ~ReMatchTikTok(url)
       THEN /\ pc' = "done"
            /\ status' = 400
            /\ error' = "invalid_url"
       ELSE /\ pc' = IF ContainsVm(url) THEN "resolve" ELSE "extract"
            /\ UNCHANGED <<status, error>>
    /\ UNCHANGED <<tiktok_url, url, calls, redirect, fetch, scripts, video_id, json_ld,
                   meta, ssstik, tikmate, no_watermark_url, video_data>>

\* lines 82-84 and 106-114
Resolve ==
    /\ pc = "resolve"
    /\ \E answer \in RedirectAnswers(url) :
          /\ redirect' = answer
          /\ url' = ResolveShortenedUrl(url, answer)
    /\ calls' = Append(calls, Call("redirect"))
    /\ pc' = "extract"
    /\ UNCHANGED <<tiktok_url, fetch, scripts, video_id, json_ld, meta, ssstik, tikmate,
                   no_watermark_url, status, error, video_data>>

\* lines 118-183: the page fetch, the video id and the metadata
FetchAndParse(pages) ==
    /\ pc = "extract"
    /\ calls' = Append(calls, Call("page"))
    /\ \E answer \in FetchAnswers(pages) :
          /\ fetch' = [called |-> TRUE, raised |-> answer.raised, status |-> answer.status]
          /\ IF answer.raised \/ ~IsSuccess(answer.status)
             THEN /\ Respond(ExtractOnException, NoVideoData)
                  /\ UNCHANGED <<scripts, video_id, json_ld, meta>>
             ELSE IF VideoIdOf(url) = ""
             THEN /\ Respond("none", NoVideoData)
                  /\ UNCHANGED <<scripts, video_id, json_ld, meta>>
             ELSE /\ video_id' = VideoIdOf(url)
                  /\ scripts' = answer.page
                  /\ json_ld' = FindJsonLd(answer.page)
                  /\ meta' = ExtractMetadata(FindJsonLd(answer.page))
                  /\ IF ExtractMetadata(FindJsonLd(answer.page)).raised
                     THEN Respond(ExtractOnException, NoVideoData)
                     ELSE /\ pc' = "ssstik"
                          /\ UNCHANGED <<status, error, video_data>>
    /\ UNCHANGED <<tiktok_url, url, redirect, ssstik, tikmate, no_watermark_url>>

\* lines 216-235, and lines 255-257, 192-206 and 89-95 when the strategy
\* ends the request
Strategy1(answers) ==
    /\ pc = "ssstik"
    /\ calls' = Append(calls, Call("ssstik"))
    /\ \E answer \in answers :
          /\ ssstik' = answer
          /\ LET r == SsstikStrategy(answer)
             IN  CASE r.kind = "raise" ->
                        /\ no_watermark_url' = NoWatermarkUrlOnException
                        /\ ReturnVideoData(NoWatermarkUrlOnException)
                   [] r.kind = "return" ->
                        /\ no_watermark_url' = r.value
                        /\ ReturnVideoData(r.value)
                   [] r.kind = "next" ->
                        /\ pc' = "tikmate"
                        /\ UNCHANGED <<no_watermark_url, status, error, video_data>>
    /\ UNCHANGED <<tiktok_url, url, redirect, fetch, scripts, video_id, json_ld, meta,
                   tikmate>>

\* lines 238-249
Strategy2(answers) ==
    /\ pc = "tikmate"
    /\ calls' = Append(calls, Call("tikmate"))
    /\ \E answer \in answers :
          /\ tikmate' = answer
          /\ LET r == TikmateStrategy(answer)
             IN  CASE r.kind = "raise" ->
                        /\ no_watermark_url' = NoWatermarkUrlOnException
                        /\ ReturnVideoData(NoWatermarkUrlOnException)
                   [] r.kind = "return" ->
                        /\ no_watermark_url' = r.value
                        /\ ReturnVideoData(r.value)
                   [] r.kind = "next" ->
                        /\ pc' = "fallback"
                        /\ UNCHANGED <<no_watermark_url, status, error, video_data>>
    /\ UNCHANGED <<tiktok_url, url, redirect, fetch, scripts, video_id, json_ld, meta,
                   ssstik>>

\* line 253
Fallback ==
    /\ pc = "fallback"
    /\ no_watermark_url' = FallbackUrl(video_id)
    /\ ReturnVideoData(FallbackUrl(video_id))
    /\ UNCHANGED <<tiktok_url, url, calls, redirect, fetch, scripts, video_id, json_ld,
                   meta, ssstik, tikmate>>

\* every answer of the two services, a few pages
Next ==
    \/ Validate
    \/ Resolve
    \/ FetchAndParse(FewPages)
    \/ Strategy1(SsstikAnswers)
    \/ Strategy2(TikmateAnswers)
    \/ Fallback

Spec == Init /\ [][Next]_vars

\* every page, a few answers of the two services
NextPages ==
    \/ Validate
    \/ Resolve
    \/ FetchAndParse(Pages)
    \/ Strategy1(FewSsstikAnswers)
    \/ Strategy2(FewTikmateAnswers)
    \/ Fallback

SpecPages == Init /\ [][NextPages]_vars

-----------------------------------------------------------------------------
(* The properties.                                                         *)

\* positions of the calls to a service
CallsTo(service) == {i \in 1..Len(calls) : calls[i].service = service}

\* the two accepted shapes, as the specification words them: a shortened
\* vm.tiktok.com/<token> and a canonical tiktok.com/@<handle>/video/<digits>
IsShortenedShape(u) ==
    u.host = "vm.tiktok.com" /\ u.path # <<>> /\ Head(u.path) \in TokenSegments

IsCanonicalShape(u) ==
    /\ u.host \in {"tiktok.com", "www.tiktok.com"}
    /\ Len(u.path) >= 3
    /\ SubSeq(u.path, 1, 3) \in
          {<<h, "video", n>> : h \in HandleSegments, n \in NumericSegments}

\* C1: a request whose URL matches neither accepted shape is answered 400,
\* and no outbound call (redirect resolution, page fetch, extraction
\* service, lookup API) is issued at any point of it.
C1_InvalidUrlRejectedBeforeAnyCall ==
    ~(IsShortenedShape(tiktok_url) \/ IsCanonicalShape(tiktok_url)) =>
        /\ calls = <<>>
        /\ pc \in {"validate", "done"}
        /\ pc = "done" => (status = 400 /\ error = "invalid_url")

\* a URL on the short-link host whose path is that of a canonical URL was
\* rejected
C1_Witness ==
    /\ pc = "done"
    /\ status = 400
    /\ tiktok_url = Url("https", "vm.tiktok.com", <<"@user", "video", "7123">>)
    /\ calls = <<>>

\* C3 as claimed: a page fetch that ends with a failure status makes the
\* request end with 500.
C3_FetchFailureIs500 ==
    (pc = "done" /\ fetch.called /\ ~fetch.raised /\ fetch.status >= 400) =>
        status = 500

\* C3 as the code has it: a page fetch that ends with a failure status is
\* caught inside extract_video_data_real, which returns None, and the
\* request ends with 404 video_not_found (neither 500 nor 200), no
\* watermark-free strategy having been tried.
C3_FetchFailureIs404 ==
    (fetch.called /\ ~fetch.raised /\ fetch.status >= 400) =>
        /\ pc = "done"
        /\ status = 404
        /\ error = "video_not_found"
        /\ CallsTo("ssstik") = {} /\ CallsTo("tikmate") = {}
        /\ Len(calls) >= 1 /\ calls[Len(calls)].service = "page"

C3_Witness ==
    /\ pc = "done"
    /\ fetch.called /\ ~fetch.raised /\ fetch.status = 404
    /\ tiktok_url = Url("https", "www.tiktok.com", <<"@user", "video", "7123">>)
    /\ status = 404

\* C4: when the redirect resolution of a validated shortened URL fails,
\* resolve_shortened_url returns the original URL, download_video goes on
\* to the page fetch with that URL, and the failure is not the response.
C4_ResolutionFailureKeepsUrl ==
    (redirect.called /\ redirect.raised) =>
        /\ url = tiktok_url
        /\ calls[1] = [service |-> "redirect", url |-> tiktok_url]
        /\ \/ pc = "extract" /\ status = 0 /\ Len(calls) = 1
           \/ Len(calls) >= 2 /\ calls[2] = [service |-> "page", url |-> tiktok_url]

\* the resolution of a short link failed and the page of the short link
\* itself was fetched
C4_Witness ==
    /\ redirect.called /\ redirect.raised
    /\ tiktok_url = Url("https", "vm.tiktok.com", <<"ZSabc12">>)
    /\ Len(calls) = 2
    /\ calls[2] = [service |-> "page", url |-> tiktok_url]
    /\ pc = "done"

\* the URL holds a /video/<digits> segment
HasVideoDigits(u) ==
    \E i \in 1..Len(u.path) :
        i < Len(u.path) /\ u.path[i] = "video" /\ u.path[i + 1] \in NumericSegments

\* C5: a request that passed validation and whose URL, resolved, holds no
\* /video/<digits> segment is answered 404 video_not_found, and neither
\* the extraction service nor the lookup API is called nor the fallback
\* URL made in it.
C5_NoVideoIdIs404 ==
    (pc \notin {"validate", "resolve"} /\ status # 400 /\ ~HasVideoDigits(url)) =>
        /\ CallsTo("ssstik") = {} /\ CallsTo("tikmate") = {}
        /\ ~ssstik.called /\ ~tikmate.called
        /\ no_watermark_url = ""
        /\ pc \in {"extract", "done"}
        /\ pc = "done" => (status = 404 /\ error = "video_not_found")

\* a short link resolved to a URL with /video/ and no digits, whose page
\* was fetched with success
C5_Witness ==
    /\ pc = "done"
    /\ status = 404
    /\ redirect.called /\ ~redirect.raised
    /\ url = Url("https", "www.tiktok.com", <<"@user", "video", "abc">>)
    /\ fetch.status = 200

\* the extraction service was tried and gave no URL: a transport exception,
\* a status other than 200, or no a.download with the text
SsstikFailed ==
    /\ ssstik.called
    /\ \/ ssstik.raised
       \/ ssstik.status # 200
       \/ \A i \in 1..Len(ssstik.anchors) :
             ~(ssstik.anchors[i].download /\ ssstik.anchors[i].text)

\* the lookup API was tried and gave no URL: a transport exception, a
\* status other than 200, or a JSON answer without videoUrl
TikmateFailed ==
    /\ tikmate.called
    /\ \/ tikmate.raised
       \/ tikmate.status # 200
       \/ tikmate.body = "no videoUrl"

\* the response is 200 and carries the fallback URL made of the video id
AnsweredWithFallback ==
    /\ status = 200
    /\ video_id # ""
    /\ video_data.video_url =
          "https://api16-normal-c-useast1a.tiktokv.com/aweme/v1/play/?video_id="
              \o video_id \o "&line=0&is_play_url=1&source=PackSourceEnum_FEED"
    /\ video_data.download_url = video_data.video_url

\* C2: when both strategies of get_no_watermark_url have failed, in
\* whatever way, the request ends with 200 and the fallback URL of the
\* video id, never with 404.
C2_BothFailedGivesFallback ==
    (pc = "done" /\ SsstikFailed /\ TikmateFailed) => AnsweredWithFallback

\* C9: a transport exception in the extraction-service POST is followed by
\* the lookup-API GET, and a transport exception in the lookup-API GET by
\* the fallback URL.
C9_ExceptionMovesToNextStrategy ==
    /\ (pc = "done" /\ ssstik.called /\ ssstik.raised) => CallsTo("tikmate") # {}
    /\ (pc = "done" /\ tikmate.called /\ tikmate.raised) => AnsweredWithFallback

\* positions of the anchors whose text holds 'without watermark'
TextAnchors == {i \in 1..Len(ssstik.anchors) : ssstik.anchors[i].text}

\* positions of the anchors of class download whose text holds it
DownloadAnchors == {i \in TextAnchors : ssstik.anchors[i].download}

Least(S) == CHOOSE i \in S : \A j \in S : i <= j

\* the strategies run in order, each at most once: the lookup API only
\* after the extraction service was tried and gave no URL, the fallback
\* only after both
StrategiesInOrder ==
    /\ Cardinality(CallsTo("ssstik")) <= 1
    /\ Cardinality(CallsTo("tikmate")) <= 1
    /\ \A i \in CallsTo("tikmate") :
          /\ \E j \in CallsTo("ssstik") : j < i
          /\ SsstikFailed
    /\ (pc = "fallback" \/ no_watermark_url \notin {"", ScrapedLink, LookupLink}) =>
          /\ SsstikFailed /\ TikmateFailed
          /\ \E i \in CallsTo("ssstik") : \E j \in CallsTo("tikmate") : i < j

\* C6 as claimed: once the extraction service answers 200 with an anchor
\* whose text holds 'without watermark', the response is 200 with
\* video_url and download_url the href of the first such anchor, the
\* lookup API is not called and no fallback URL is made; and the
\* strategies run in order.
C6_FirstTextAnchorWins ==
    /\ StrategiesInOrder
    /\ (ssstik.called /\ ~ssstik.raised /\ ssstik.status = 200 /\ TextAnchors # {}) =>
          /\ pc = "done"
          /\ status = 200
          /\ video_data.video_url = ssstik.anchors[Least(TextAnchors)].href
          /\ video_data.download_url = ssstik.anchors[Least(TextAnchors)].href
          /\ CallsTo("tikmate") = {} /\ ~tikmate.called

\* C6 as the code has it: once the extraction service answers 200 and the
\* first anchor of class download whose text holds 'without watermark'
\* has a nonempty href, the response is 200 with video_url and
\* download_url that href, the lookup API is not called and no fallback
\* URL is made; and the strategies run in order.
C6_FirstDownloadAnchorWins ==
    /\ StrategiesInOrder
    /\ (/\ ssstik.called /\ ~ssstik.raised /\ ssstik.status = 200
        /\ DownloadAnchors # {}
        /\ ssstik.anchors[Least(DownloadAnchors)].href \notin {NoHref, ""}) =>
          /\ pc = "done"
          /\ status = 200
          /\ video_data.video_url = ssstik.anchors[Least(DownloadAnchors)].href
          /\ video_data.download_url = ssstik.anchors[Least(DownloadAnchors)].href
          /\ no_watermark_url = video_data.video_url
          /\ CallsTo("tikmate") = {} /\ ~tikmate.called

\* the second anchor was taken: the first one has the text and not the class
C6_Witness ==
    /\ pc = "done"
    /\ status = 200
    /\ Len(ssstik.anchors) = 2
    /\ ssstik.anchors[1].text /\ ~ssstik.anchors[1].download
    /\ DownloadAnchors = {2}
    /\ video_data.video_url = ScrapedLink
    /\ CallsTo("tikmate") = {}

-----------------------------------------------------------------------------
(* The metadata.                                                           *)

\* the text is 'PT...', what precedes its first 'M' and what lies between
\* that and the next 'S' are integers
IsoBody(text) == SubSeq(text, 3, Len(text))

FirstIndex(s, c) ==
    IF \E i \in 1..Len(s) : s[i] = c
    THEN Least({i \in 1..Len(s) : s[i] = c})
    ELSE 0

MinutesText(text) == SubSeq(IsoBody(text), 1, FirstIndex(IsoBody(text), "M") - 1)

AfterMinutes(text) ==
    SubSeq(IsoBody(text), FirstIndex(IsoBody(text), "M") + 1, Len(IsoBody(text)))

SecondsText(text) ==
    SubSeq(AfterMinutes(text), 1, FirstIndex(AfterMinutes(text), "S") - 1)

IsDigitRun(s) == s # <<>> /\ \A i \in 1..Len(s) : s[i] \in Digits

HasMinutes(text) == FirstIndex(IsoBody(text), "M") # 0
HasSeconds(text) == FirstIndex(AfterMinutes(text), "S") # 0

IsMinutesSecondsDuration(text) ==
    /\ Len(text) >= 2 /\ SubSeq(text, 1, 2) = <<"P", "T">>
    /\ HasMinutes(text) => IsDigitRun(MinutesText(text))
    /\ HasSeconds(text) => IsDigitRun(SecondsText(text))

MinutesTimes60PlusSeconds(text) ==
    (IF HasMinutes(text) THEN DecimalValue(MinutesText(text)) ELSE 0) * 60
        + (IF HasSeconds(text) THEN DecimalValue(SecondsText(text)) ELSE 0)

\* C7: for the VideoObject taken from the page, when its duration is a
\* 'PT...' string whose part before 'M' and part before 'S' are integers,
\* the duration returned is minutes*60 + seconds, a component without its
\* letter counting as zero: PT1M30S is 90, PT45S is 45, PT2M is 120.
C7_DurationIsMinutesTimes60PlusSeconds ==
    (/\ json_ld # NoJsonLd
     /\ json_ld.duration.present
     /\ IsMinutesSecondsDuration(json_ld.duration.text)) =>
        /\ (json_ld.author.kind # "string" /\ json_ld.thumbnailUrl # [kind |-> "list", value |-> "", items |-> <<>>]) =>
              /\ ~meta.raised
              /\ meta.duration = MinutesTimes60PlusSeconds(json_ld.duration.text)
        /\ status = 200 =>
              /\ video_data.duration = MinutesTimes60PlusSeconds(json_ld.duration.text)
              /\ json_ld.duration.text = <<"P", "T", "1", "M", "3", "0", "S">> =>
                    video_data.duration = 90
              /\ json_ld.duration.text = <<"P", "T", "4", "5", "S">> =>
                    video_data.duration = 45
              /\ json_ld.duration.text = <<"P", "T", "2", "M">> =>
                    video_data.duration = 120

\* a response carries the 90 seconds of PT1M30S, found after a block that
\* is no JSON
C7_Witness ==
    /\ pc = "done"
    /\ status = 200
    /\ Len(scripts) = 2
    /\ ~scripts[1].parses
    /\ json_ld = scripts[2]
    /\ json_ld.duration.text = <<"P", "T", "1", "M", "3", "0", "S">>
    /\ video_data.duration = 90

\* the page has no VideoObject block
NoVideoObjectIn(blocks) ==
    \A i \in 1..Len(blocks) : ~(blocks[i].parses /\ blocks[i].type = "VideoObject")

\* C8: a 200 response for a page without any VideoObject block carries
\* title 'TikTok Video', author 'TikTok User', duration 30 and an empty
\* cover, whichever strategy gave the video_url.
C8_DefaultsWithoutVideoObject ==
    (pc = "done" /\ status = 200 /\ NoVideoObjectIn(scripts)) =>
        /\ video_data.title = "TikTok Video"
        /\ video_data.author = "TikTok User"
        /\ video_data.duration = 30
        /\ video_data.cover = ""

\* a page whose only blocks are one that is no JSON and one of another
\* type, answered with the lookup API's URL
C8_Witness ==
    /\ pc = "done"
    /\ status = 200
    /\ scripts = <<BadJson, OtherJson>>
    /\ video_data.video_url = LookupLink
    /\ video_data.title = "TikTok Video"

\* the VideoObject has a malformed author, thumbnail or duration: an
\* author that is no object, an empty thumbnail list, a duration such as
\* PT1H2M or PT1.5S
IsMalformed(jl) ==
    \/ jl.author.kind = "string"
    \/ jl.thumbnailUrl.kind = "list" /\ jl.thumbnailUrl.items = <<>>
    \/ /\ jl.duration.present
       /\ jl.duration.text \in {<<"P", "T", "1", "H", "2", "M">>,
                                 <<"P", "T", "1", ".", "5", "S">>}

\* C10: a parse failure of the metadata step is not the request's error:
\* with a script block that is no JSON, or a VideoObject whose author,
\* thumbnail or duration is malformed, the request goes on to the
\* watermark-free resolver, the field concerned keeping its default.
C10_ParseFailureKeepsDefault ==
    (/\ pc = "done"
     /\ fetch.called /\ ~fetch.raised /\ fetch.status = 200
     /\ video_id # ""
     /\ \/ \E i \in 1..Len(scripts) : ~scripts[i].parses
        \/ json_ld # NoJsonLd /\ IsMalformed(json_ld)) =>
        /\ ssstik.called
        /\ CallsTo("ssstik") # {}
        /\ (json_ld # NoJsonLd /\ json_ld.author.kind = "string") =>
              meta.author = "TikTok User"
        /\ (json_ld # NoJsonLd /\ json_ld.thumbnailUrl.kind = "list"
                /\ json_ld.thumbnailUrl.items = <<>>) => meta.cover = ""
        /\ (json_ld # NoJsonLd /\ json_ld.duration.present
                /\ json_ld.duration.text \in {<<"P", "T", "1", "H", "2", "M">>,
                                               <<"P", "T", "1", ".", "5", "S">>}) =>
              meta.duration = 30

====
